---------------------------- MODULE Spec2Model ----------------------------
(***************************************************************************)
(* A model of src/main.py, create_consolidated_json: the factor table and  *)
(* the AIS event log are read, the factor table is forward-filled and      *)
(* melted, a final-score map is built, one hourly record per time range is *)
(* assembled and the list is written to consolidated_ship_data.json.       *)
(*                                                                         *)
(* Text is modelled as a sequence of one-character strings, so that the    *)
(* string operations of the source (strip, lower, replace, split, int,     *)
(* comparison by code point) are computed rather than assumed.             *)
(***************************************************************************)
EXTENDS Integers, Sequences, FiniteSets, TLC

VARIABLES
    pc,                 \* position in create_consolidated_json
    factors_file,       \* 4-21-day-result.csv: "missing" or a table
    ais_file,           \* AIS.csv: "absent", "unreadable" or a table
    out_file,           \* consolidated_ship_data.json on disk
    out_before,         \* the same file as it was when the run started
    factors_df,         \* rows after ffill and dropna(how='all')
    time_vars,          \* headers kept as time columns
    factors_long_df,    \* melted rows after dropna(subset=[Factor, value])
    final_score_map,    \* dict: normalized time range -> score
    ais_df,             \* rows of AIS.csv with a parsed Timestamp
    unique_time_ranges, \* sorted distinct labels of factors_long_df
    idx,                \* position of the for loop over unique_time_ranges
    final_json_data,    \* list of hourly records appended so far
    inserted,           \* log of the executions of line 141 (bucket inserts)
    warnings,           \* messages printed by the recoverable branches
    error,              \* the exception that ended the run, or "none"
    norm_in,            \* arguments handed to normalize_time_range
    norm_out            \* what normalize_time_range returned for them

vars == <<pc, factors_file, ais_file, out_file, out_before, factors_df,
          time_vars, factors_long_df, final_score_map, ais_df,
          unique_time_ranges, idx, final_json_data, inserted, warnings,
          error, norm_in, norm_out>>

---------------------------------------------------------------------------
(* Characters.  The three characters that have no printable ASCII form are *)
(* named; every other character is the one-character string itself.       *)

Tab == "TAB"
EnDash == "U+2013"
EmDash == "U+2014"

Digits == <<"0", "1", "2", "3", "4", "5", "6", "7", "8", "9">>

UpperCase ==
    <<"A", "B", "C", "D", "E", "F", "G", "H", "I", "J", "K", "L", "M",
      "N", "O", "P", "Q", "R", "S", "T", "U", "V", "W", "X", "Y", "Z">>

LowerCase ==
    <<"a", "b", "c", "d", "e", "f", "g", "h", "i", "j", "k", "l", "m",
      "n", "o", "p", "q", "r", "s", "t", "u", "v", "w", "x", "y", "z">>

Range(f) == {f[i] : i \in DOMAIN f}

IndexIn(f, c) == CHOOSE i \in DOMAIN f : f[i] = c

Chars ==
    Range(Digits) \cup Range(UpperCase) \cup Range(LowerCase)
        \cup {" ", "+", "-", ":", "_", Tab, EnDash, EmDash}

\* The code point of a character (Python compares str by code point).
OrdOf ==
    [c \in Chars |->
        CASE c = Tab -> 9
          [] c = " " -> 32
          [] c = "+" -> 43
          [] c = "-" -> 45
          [] c = ":" -> 58
          [] c = "_" -> 95
          [] c = EnDash -> 8211
          [] c = EmDash -> 8212
          [] c \in Range(Digits) -> 47 + IndexIn(Digits, c)
          [] c \in Range(UpperCase) -> 64 + IndexIn(UpperCase, c)
          [] c \in Range(LowerCase) -> 96 + IndexIn(LowerCase, c)]

\* str.isspace() for the characters of the model.
IsSpace(c) == c \in {" ", Tab}

IsDigit(c) == c \in Range(Digits)

\* str.lower() of one character.
LowerChar(c) ==
    IF c \in Range(UpperCase) THEN LowerCase[IndexIn(UpperCase, c)] ELSE c

\* str.lower()
Lower(s) == [i \in 1..Len(s) |-> LowerChar(s[i])]

RECURSIVE LStrip(_)
LStrip(s) == IF s # <<>> /\ IsSpace(Head(s)) THEN LStrip(Tail(s)) ELSE s

RECURSIVE RStrip(_)
RStrip(s) ==
    IF s # <<>> /\ IsSpace(s[Len(s)]) THEN RStrip(SubSeq(s, 1, Len(s) - 1)) ELSE s

\* str.strip(): leading and trailing whitespace removed.
Strip(s) == RStrip(LStrip(s))

\* str.replace(c, r) for a one-character c and a text r.
RECURSIVE Replace(_, _, _)
Replace(s, c, r) ==
    IF s = <<>> THEN <<>>
    ELSE (IF Head(s) = c THEN r ELSE <<Head(s)>>) \o Replace(Tail(s), c, r)

\* c in s
Contains(s, c) == \E i \in 1..Len(s) : s[i] = c

\* s.split(':')[0]: the text before the first colon, the whole text without one.
RECURSIVE BeforeColon(_)
BeforeColon(s) ==
    IF s = <<>> \/ Head(s) = ":" THEN <<>> ELSE <<Head(s)>> \o BeforeColon(Tail(s))

\* The sign-free body of a Python integer literal: digits, single underscores
\* allowed between digits only.
DigitBody(d) ==
    /\ d # <<>>
    /\ IsDigit(d[1]) /\ IsDigit(d[Len(d)])
    /\ \A i \in 1..Len(d) : IsDigit(d[i]) \/ d[i] = "_"
    /\ \A i \in 1..(Len(d) - 1) : ~(d[i] = "_" /\ d[i + 1] = "_")

Unsigned(t) == IF t # <<>> /\ Head(t) \in {"+", "-"} THEN Tail(t) ELSE t

\* Whether int(s) returns (TRUE) or raises ValueError (FALSE): int() strips
\* whitespace and accepts one sign.
IntParses(s) == DigitBody(Unsigned(Strip(s)))

RECURSIVE DigitsValue(_, _)
DigitsValue(d, acc) ==
    IF d = <<>> THEN acc
    ELSE IF Head(d) = "_" THEN DigitsValue(Tail(d), acc)
    ELSE DigitsValue(Tail(d), 10 * acc + (OrdOf[Head(d)] - 48))

\* int(s) where it parses.
IntValue(s) ==
    LET t == Strip(s)
        v == DigitsValue(Unsigned(t), 0)
    IN  IF t # <<>> /\ Head(t) = "-" THEN 0 - v ELSE v

\* a < b for Python str: lexicographic by code point, a proper prefix first.
RECURSIVE StrLess(_, _)
StrLess(a, b) ==
    IF b = <<>> THEN FALSE
    ELSE IF a = <<>> THEN TRUE
    ELSE IF Head(a) = Head(b) THEN StrLess(Tail(a), Tail(b))
    ELSE OrdOf[Head(a)] < OrdOf[Head(b)]

\* normalize_time_range (the four replace calls name two characters twice).
normalize_time_range(s) ==
    Strip(Replace(Replace(Replace(Replace(Replace(s,
              EnDash, <<"-">>), EmDash, <<"-">>), EnDash, <<"-">>), EmDash, <<"-">>),
              " ", <<>>))

---------------------------------------------------------------------------
(* Cells.  A text cell is NaN or a str; a number cell is NaN, an integer    *)
(* literal or a decimal literal (n counts tenths, so that an integer read   *)
(* into a float64 column is the decimal with the same value).               *)

NaNText == [kind |-> "nan", s |-> <<>>]
Str(t) == [kind |-> "str", s |-> t]

NaN == [kind |-> "nan", n |-> 0]
None == [kind |-> "None", n |-> 0]
IntCell(n) == [kind |-> "int", n |-> n]
FloatCell(tenths) == [kind |-> "float", n |-> tenths]

\* pd.notna / what dropna keeps
notna(c) == c.kind # "nan"

\* format_category_name: a non-str argument (NaN) gives 'unknown'.
format_category_name(name) ==
    IF name.kind = "str" THEN Replace(Lower(Strip(name.s)), " ", <<"_">>)
    ELSE <<"u", "n", "k", "n", "o", "w", "n">>

H_0_1 == <<"0", ":", "0", "0", " ", "-", " ", "1", ":", "0", "0">>
H_0_1_tight == <<"0", ":", "0", "0", "-", "1", ":", "0", "0">>
H_1_2 == <<"1", ":", "0", "0", " ", "-", " ", "2", ":", "0", "0", " ">>
H_10_11 == <<"1", "0", ":", "0", "0", " ", "-", " ", "1", "1", ":", "0", "0">>
H_x == <<"x", ":", "0", "0", " ", "-", " ", "1", ":", "0", "0">>
H_endash == <<"0", ":", "0", "0", " ", EnDash, " ", "1", ":", "0", "0">>
H_tab == <<"0", ":", "0", "0", Tab, "-", " ", "1", ":", "0", "0">>
H_2_sp == <<"2", " ", ":", "0", "0", " ", "-", " ", "3", ":", "0", "0">>
H_neg == <<"-", "1", ":", "0", "0", " ", "-", " ", "0", ":", "0", "0">>
Cat_ShipFactors == <<"S", "h", "i", "p", " ", "F", "a", "c", "t", "o", "r", "s">>
Cat_HumanFactors == <<" ", "h", "u", "m", "a", "n", " ", "f", "a", "c", "t", "o", "r", "s">>
Cat_Other == <<"W", "e", "a", "t", "h", "e", "r">>
Cat_FinalScore == <<"F", "i", "n", "a", "l", " ", "S", "c", "o", "r", "e">>
Cat_TimeRange == <<"T", "i", "m", "e", " ", "R", "a", "n", "g", "e">>
Fac_Speed == <<"S", "p", "e", "e", "d">>
Fac_Speed_sp == <<"S", "p", "e", "e", "d", " ">>
Fac_Draft == <<"D", "r", "a", "f", "t">>

\* The keys of hourly_record (lines 114-122), as text.
KeyText ==
    [time_range |-> <<"t", "i", "m", "e", "_", "r", "a", "n", "g", "e">>,
     external_environment_factors |->
        <<"e", "x", "t", "e", "r", "n", "a", "l", "_", "e", "n", "v", "i", "r", "o",
          "n", "m", "e", "n", "t", "_", "f", "a", "c", "t", "o", "r", "s">>,
     human_factors |-> <<"h", "u", "m", "a", "n", "_", "f", "a", "c", "t", "o", "r", "s">>,
     internal_environment_factors |->
        <<"i", "n", "t", "e", "r", "n", "a", "l", "_", "e", "n", "v", "i", "r", "o",
          "n", "m", "e", "n", "t", "_", "f", "a", "c", "t", "o", "r", "s">>,
     ship_factors |-> <<"s", "h", "i", "p", "_", "f", "a", "c", "t", "o", "r", "s">>,
     ais_data |-> <<"a", "i", "s", "_", "d", "a", "t", "a">>,
     final_score |-> <<"f", "i", "n", "a", "l", "_", "s", "c", "o", "r", "e">>]

\* The keys whose value is a dict.
BucketKeys ==
    {"external_environment_factors", "human_factors",
     "internal_environment_factors", "ship_factors"}

---------------------------------------------------------------------------
(* dict: a sequence of [k, v] in insertion order; d[k] = v replaces the     *)
(* value of a key in place and appends a new key.                           *)

DictHas(d, k) == \E i \in 1..Len(d) : d[i].k = k

DictGet(d, k, default) ==
    IF DictHas(d, k) THEN d[CHOOSE i \in 1..Len(d) : d[i].k = k].v ELSE default

DictSet(d, k, v) ==
    IF DictHas(d, k)
    THEN [i \in 1..Len(d) |-> IF d[i].k = k THEN [k |-> k, v |-> v] ELSE d[i]]
    ELSE Append(d, [k |-> k, v |-> v])

---------------------------------------------------------------------------
(* Step 1: the factor table (lines 12-50).  A table on disk is its header   *)
(* cells after the two unnamed id columns, and its rows: the category cell, *)
(* the factor cell and one number cell per header.                          *)

RECURSIVE ffill_first(_, _)
ffill_first(cells, last) ==
    IF cells = <<>> THEN <<>>
    ELSE LET c == IF notna(Head(cells)) THEN Head(cells) ELSE last
         IN  <<c>> \o ffill_first(Tail(cells), IF notna(last) THEN last ELSE c)

\* Series.ffill(): the last value seen so far replaces a missing one.
RECURSIVE ffill(_, _)
ffill(cells, last) ==
    IF cells = <<>> THEN <<>>
    ELSE LET c == IF notna(Head(cells)) THEN Head(cells) ELSE last
         IN  <<c>> \o ffill(Tail(cells), c)

\* The dtype read_csv infers for number column j: int64 when every cell is an
\* integer literal, float64 as soon as one is missing or a decimal.
ColumnDtype(rows, j) ==
    IF rows # <<>> /\ \A i \in 1..Len(rows) : rows[i].vals[j].kind = "int"
    THEN "int64" ELSE "float64"

\* A cell as the column holds it: a numpy int64 in an int64 column, a float
\* (or NaN) in a float64 column.
StoredCell(c, dtype) ==
    IF dtype = "int64" THEN [kind |-> "int64", n |-> c.n]
    ELSE IF c.kind = "int" THEN FloatCell(10 * c.n)
    ELSE c

\* Lines 12-29: read_csv, strip the headers, ffill the category column, drop
\* the rows that are empty in every column.  A row keeps its index label.
PrepareFactors(table) ==
    LET rows == table.rows
        ncol == Len(table.headers)
        cats == ffill([i \in 1..Len(rows) |-> rows[i].cat], NaNText)
        dtypes == [j \in 1..ncol |-> ColumnDtype(rows, j)]
        all == [i \in 1..Len(rows) |->
                   [index |-> i,
                    category |-> cats[i],
                    factor |-> rows[i].fac,
                    vals |-> [j \in 1..ncol |-> StoredCell(rows[i].vals[j], dtypes[j])]]]
        NotAllNa(r) ==
            notna(r.category) \/ notna(r.factor) \/ \E j \in 1..ncol : notna(r.vals[j])
    IN  [columns |-> [j \in 1..ncol |-> Strip(table.headers[j])],
         dtypes |-> dtypes,
         category_is_object |-> (rows = <<>> \/ \E i \in 1..Len(rows) : notna(rows[i].cat)),
         rows |-> SelectSeq(all, NotAllNa)]

\* Line 33: the headers with a colon and a hyphen.
TimeVars(df) == SelectSeq(df.columns, LAMBDA col : Contains(col, ":") /\ Contains(col, "-"))

ColumnOf(df, col) == CHOOSE j \in 1..Len(df.columns) : df.columns[j] = col

\* The value column of the melted frame is int64 only when every time column
\* is; iterrows hands its values out as Python int or float.
RowValue(v, all_int) ==
    IF v.kind = "int64"
    THEN (IF all_int THEN IntCell(v.n) ELSE FloatCell(10 * v.n))
    ELSE v

\* Lines 38-43: melt, one block of rows per time column, in column order.  row
\* is the index label of the source row (melt itself resets the index).
RECURSIVE melt(_, _, _)
melt(df, value_vars, all_int) ==
    IF value_vars = <<>> THEN <<>>
    ELSE LET col == Head(value_vars)
             j == ColumnOf(df, col)
         IN  [i \in 1..Len(df.rows) |->
                 [category |-> df.rows[i].category,
                  factor |-> df.rows[i].factor,
                  time_range |-> col,
                  value |-> RowValue(df.rows[i].vals[j], all_int),
                  row |-> df.rows[i].index]]
             \o melt(df, Tail(value_vars), all_int)

AllInt(df, value_vars) ==
    \A i \in 1..Len(value_vars) : df.dtypes[ColumnOf(df, value_vars[i])] = "int64"

\* Lines 38-46: melt, then dropna(subset=['Factor', 'value']).
FactorRecords(df, value_vars) ==
    SelectSeq(melt(df, value_vars, AllInt(df, value_vars)),
              LAMBDA r : notna(r.factor) /\ notna(r.value))

(* Lines 58-70: the final-score map.                                        *)

\* Line 58: the rows whose category, stripped and lowered, is 'final score'.
FinalScoreRows(df) ==
    SelectSeq(df.rows,
              LAMBDA r : /\ r.category.kind = "str"
                         /\ Lower(Strip(r.category.s))
                              = <<"f", "i", "n", "a", "l", " ", "s", "c", "o", "r", "e">>)

\* Lines 62-67: one entry per time column whose score is not missing.
RECURSIVE ScoreMap(_, _, _, _)
ScoreMap(df, row, cols, acc) ==
    IF cols = <<>> THEN acc
    ELSE LET score == row.vals[ColumnOf(df, Head(cols))]
         IN  ScoreMap(df, row, Tail(cols),
                      IF notna(score)
                      THEN DictSet(acc, normalize_time_range(Head(cols)), score)
                      ELSE acc)

(* Lines 77-90: the event log.  A Timestamp cell is text that to_datetime   *)
(* parses (the day and the hour it names) or text that it does not.         *)

BadStamp == [kind |-> "text", ok |-> FALSE, day |-> 0, hour |-> 0]
Stamp(d, h) == [kind |-> "text", ok |-> TRUE, day |-> d, hour |-> h]

\* pd.to_datetime(..., errors='coerce')
to_datetime(c) ==
    IF c.ok THEN [kind |-> "datetime", ok |-> TRUE, day |-> c.day, hour |-> c.hour]
    ELSE [kind |-> "NaT", ok |-> FALSE, day |-> 0, hour |-> 0]

\* astype(str) of a datetime
astype_str(ts) == [kind |-> "str", ok |-> TRUE, day |-> ts.day, hour |-> ts.hour]

\* Lines 82-83: parse the Timestamp column, drop the rows that did not parse.
PrepareAis(rows) ==
    SelectSeq([i \in 1..Len(rows) |->
                  [Timestamp |-> to_datetime(rows[i].Timestamp),
                   payload |-> rows[i].payload]],
              LAMBDA e : e.Timestamp.ok)

(* Lines 94-147: the aggregation loop.                                      *)

\* Series.unique(): the values in order of first appearance.
RECURSIVE unique(_, _)
unique(xs, seen) ==
    IF xs = <<>> THEN <<>>
    ELSE IF Head(xs) \in seen THEN unique(Tail(xs), seen)
    ELSE <<Head(xs)>> \o unique(Tail(xs), seen \cup {Head(xs)})

RECURSIVE InsertSorted(_, _)
InsertSorted(x, xs) ==
    IF xs = <<>> THEN <<x>>
    ELSE IF StrLess(x, Head(xs)) THEN <<x>> \o xs
    ELSE <<Head(xs)>> \o InsertSorted(x, Tail(xs))

\* sorted(): ascending by str comparison.
RECURSIVE sorted(_)
sorted(xs) == IF xs = <<>> THEN <<>> ELSE InsertSorted(Head(xs), sorted(Tail(xs)))

UniqueTimeRanges_unsorted(long_df) ==
    unique([i \in 1..Len(long_df) |-> long_df[i].time_range], {})

\* Line 94
UniqueTimeRanges(long_df) ==
    sorted(unique([i \in 1..Len(long_df) |-> long_df[i].time_range], {}))

\* Line 106: int(time_range.split(':')[0])
start_hour(time_range) == IntValue(BeforeColon(time_range))

InvalidTimeRange_never(time_range) == FALSE

\* Lines 104-109: the ValueError of int() is caught and the bucket skipped.
InvalidTimeRange(time_range) == ~IntParses(BeforeColon(time_range))

\* Lines 114-122
NewRecord(time_range, score_map) ==
    [time_range |-> time_range,
     external_environment_factors |-> <<>>,
     human_factors |-> <<>>,
     internal_environment_factors |-> <<>>,
     ship_factors |-> <<>>,
     ais_data |-> <<>>,
     final_score |-> DictGet(score_map, normalize_time_range(time_range), None)]

AisInHour_from_hour(events, hour) ==
    LET in_hour == SelectSeq(events, LAMBDA e : e.Timestamp.hour >= hour)
    IN  [i \in 1..Len(in_hour) |->
            [Timestamp |-> astype_str(in_hour[i].Timestamp),
             payload |-> in_hour[i].payload]]

\* Lines 126-129: the events of the hour, their Timestamp turned into a str.
AisInHour(events, hour) ==
    LET in_hour == SelectSeq(events, LAMBDA e : e.Timestamp.hour = hour)
    IN  [i \in 1..Len(in_hour) |->
            [Timestamp |-> astype_str(in_hour[i].Timestamp),
             payload |-> in_hour[i].payload]]

\* Line 140: category in hourly_record
InRecord(category) == \E k \in DOMAIN KeyText : KeyText[k] = category

KeyNamed(category) == CHOOSE k \in DOMAIN KeyText : KeyText[k] = category

\* Lines 135-143: the rows of one hour, in order.  Item assignment into the
\* str, list, None or number under a key that is no bucket raises TypeError,
\* which ends the loop (ok = FALSE).
RECURSIVE Aggregate(_, _)
Aggregate(st, rows) ==
    IF rows = <<>> \/ ~st.ok THEN st
    ELSE LET row == Head(rows)
             category == format_category_name(row.category)
             factor == Strip(row.factor.s)
         IN  IF InRecord(category)
             THEN IF KeyNamed(category) \in BucketKeys
                  THEN Aggregate(
                         [st EXCEPT
                            !.rec[KeyNamed(category)] = DictSet(@, factor, row.value),
                            !.ins = Append(@, [time_range |-> row.time_range,
                                               bucket |-> KeyNamed(category),
                                               factor |-> factor,
                                               value |-> row.value])],
                         Tail(rows))
                  ELSE [st EXCEPT !.ok = FALSE]
             ELSE Aggregate(
                    [st EXCEPT !.warn = Append(@, <<"Unknown category", category>>)],
                    Tail(rows))

(* Lines 151-153: the output file.                                          *)

NoFile == [exists |-> FALSE, complete |-> FALSE, data |-> <<>>]

\* What json.dump can encode: None, Python int and float; not a numpy int64.
Encodable(v) == v.kind \in {"None", "int", "float"}

Serializable(rec) ==
    /\ Encodable(rec.final_score)
    /\ \A b \in BucketKeys : \A i \in 1..Len(rec[b]) : Encodable(rec[b][i].v)

\* The records json.dump has written in full when it reaches one it cannot encode.
WrittenPrefix(data) ==
    IF \A i \in 1..Len(data) : Serializable(data[i]) THEN data
    ELSE SubSeq(data, 1,
                (CHOOSE i \in 1..Len(data) :
                    /\ ~Serializable(data[i])
                    /\ \A j \in 1..(i - 1) : Serializable(data[j])) - 1)

---------------------------------------------------------------------------
(* The inputs of a run.  The three files are what the run finds on disk;    *)
(* they are drawn from families of small tables, each family exercising one *)
(* part of the program.  Headers stay distinct once stripped, as read_csv   *)
(* renames repeated headers.                                                *)

MaxCols == 2
MaxRows == 3
MaxEvents == 2
MaxNormLen == 3

SeqsUpTo(S, n) == UNION {[1..k -> S] : k \in 0..n}

HeaderSeqs(S, n) ==
    {h \in SeqsUpTo(S, n) :
        \A i, j \in DOMAIN h : i # j => Strip(h[i]) # Strip(h[j])}

Table(h, rows) == [exists |-> TRUE, headers |-> h, rows |-> rows]
MissingTable == [exists |-> FALSE, headers |-> <<>>, rows |-> <<>>]

AisTable(rows) == [state |-> "table", rows |-> rows]
AisAbsent == [state |-> "absent", rows |-> <<>>]
AisEmptyFile == [state |-> "empty_file", rows |-> <<>>]

\* An output file left by an earlier run.
OldFile ==
    [exists |-> TRUE, complete |-> TRUE, data |-> <<NewRecord(H_0_1, <<>>)>>]

HeaderUniverse ==
    {H_0_1, H_0_1_tight, H_1_2, H_10_11, H_x, H_endash, H_tab, H_2_sp, H_neg}

\* Any headers, one row whose factor name and values may be missing.
LabelTables ==
    UNION {{Table(h, <<[cat |-> Str(Cat_ShipFactors), fac |-> f, vals |-> v]>>) :
                f \in {NaNText, Str(Fac_Speed)},
                v \in [1..Len(h) -> {NaN, IntCell(1)}]} :
           h \in HeaderSeqs(HeaderUniverse, MaxCols)}

\* One time column, rows with gaps in the category column, rows with no
\* factor name and rows that are empty in every column.
FillRows ==
    {[cat |-> c, fac |-> f, vals |-> <<IntCell(1)>>] :
        c \in {NaNText, Str(Cat_ShipFactors), Str(Cat_HumanFactors)},
        f \in {NaNText, Str(Fac_Speed)}}
    \cup {[cat |-> NaNText, fac |-> NaNText, vals |-> <<NaN>>]}

FillTables == {Table(<<H_0_1>>, rows) : rows \in SeqsUpTo(FillRows, MaxRows)}

\* One time column, two rows of any category and factor name.
CatRows ==
    {[cat |-> c, fac |-> f, vals |-> <<v>>] :
        c \in {NaNText, Str(Cat_ShipFactors), Str(Cat_HumanFactors), Str(Cat_Other),
               Str(Cat_FinalScore), Str(Cat_TimeRange)},
        f \in {NaNText, Str(Fac_Speed), Str(Fac_Speed_sp), Str(Fac_Draft)},
        v \in {NaN, IntCell(1), FloatCell(25)}}

CatTables == {Table(<<H_0_1>>, <<r1, r2>>) : r1 \in CatRows, r2 \in CatRows}

\* One or two time columns, a factor row and a row that is, or is not, the
\* final-score row.
ScoreTables ==
    UNION {{Table(h, <<[cat |-> Str(Cat_ShipFactors), fac |-> Str(Fac_Speed), vals |-> v1],
                       [cat |-> c, fac |-> NaNText, vals |-> v2]>>) :
                c \in {Str(Cat_FinalScore), Str(Cat_HumanFactors)},
                v1 \in [1..Len(h) -> {NaN, IntCell(1), FloatCell(25)}],
                v2 \in [1..Len(h) -> {NaN, IntCell(2), FloatCell(5)}]} :
           h \in HeaderSeqs({H_0_1, H_0_1_tight, H_1_2}, 2) \ {<<>>}}

\* Tables for the runs that vary the event log.
AisFactorTables ==
    {Table(h, <<[cat |-> Str(Cat_ShipFactors), fac |-> Str(Fac_Speed),
                 vals |-> [j \in 1..Len(h) |-> IntCell(1)]]>>) :
        h \in {<<H_0_1>>, <<H_1_2, H_0_1>>, <<H_neg, H_10_11>>, <<H_x>>}}

EventCells ==
    {[Timestamp |-> t, payload |-> p] :
        t \in {BadStamp, Stamp(1, 0), Stamp(2, 0), Stamp(1, 1), Stamp(1, 10)},
        p \in {"A", "B"}}

AisFiles ==
    {AisAbsent, AisEmptyFile} \cup {AisTable(rows) : rows \in SeqsUpTo(EventCells, MaxEvents)}

NormAlphabet == {"0", " ", Tab, "-", EnDash, EmDash}
NormStrings == SeqsUpTo(NormAlphabet, MaxNormLen)

EmptyDf == [columns |-> <<>>, dtypes |-> <<>>, category_is_object |-> TRUE, rows |-> <<>>]

\* The state when create_consolidated_json is entered.
Entered(table, ais, out) ==
    /\ pc = "start"
    /\ factors_file = table
    /\ ais_file = ais
    /\ out_file = out
    /\ out_before = out
    /\ factors_df = EmptyDf
    /\ time_vars = <<>>
    /\ factors_long_df = <<>>
    /\ final_score_map = <<>>
    /\ ais_df = <<>>
    /\ unique_time_ranges = <<>>
    /\ idx = 1
    /\ final_json_data = <<>>
    /\ inserted = <<>>
    /\ warnings = <<>>
    /\ error = "none"
    /\ norm_in = <<>>
    /\ norm_out = <<>>

Init ==
    \/ \E out \in {NoFile, OldFile} : Entered(MissingTable, AisAbsent, out)
    \/ \E t \in LabelTables : Entered(t, AisAbsent, OldFile)
    \/ \E t \in FillTables : Entered(t, AisAbsent, OldFile)
    \/ \E t \in CatTables : Entered(t, AisAbsent, OldFile)
    \/ \E t \in ScoreTables, out \in {NoFile, OldFile} : Entered(t, AisAbsent, out)
    \/ \E t \in AisFactorTables, a \in AisFiles : Entered(t, a, OldFile)

---------------------------------------------------------------------------
(* The steps of create_consolidated_json.  An exception that no inner try   *)
(* catches ends the run in one of the handlers of lines 167-171, which only *)
(* print.                                                                   *)

Raise(e) == pc' = "failed" /\ error' = e

\* Lines 12-50
LoadFactors ==
    /\ pc = "start"
    /\ IF ~factors_file.exists
       THEN /\ Raise("FileNotFoundError")
            /\ UNCHANGED <<factors_df, time_vars, factors_long_df>>
       ELSE LET df == PrepareFactors(factors_file)
            IN  /\ factors_df' = df
                /\ time_vars' = TimeVars(df)
                /\ factors_long_df' = FactorRecords(df, TimeVars(df))
                /\ pc' = "final_score"
                /\ error' = error
    /\ UNCHANGED <<factors_file, ais_file, out_file, out_before, final_score_map,
                   ais_df, unique_time_ranges, idx, final_json_data, inserted,
                   warnings, norm_in, norm_out>>

\* Lines 58-73.  The .str accessor raises AttributeError on a category column
\* that holds no str at all (every cell missing: a float64 column).
FinalScore ==
    /\ pc = "final_score"
    /\ IF ~factors_df.category_is_object
       THEN /\ Raise("AttributeError")
            /\ UNCHANGED <<final_score_map, warnings>>
       ELSE LET final_score_row == FinalScoreRows(factors_df)
            IN  /\ IF final_score_row # <<>>
                   THEN /\ final_score_map' =
                              ScoreMap(factors_df, final_score_row[1], time_vars, <<>>)
                        /\ warnings' = warnings
                   ELSE /\ final_score_map' = <<>>
                        /\ warnings' = Append(warnings, <<"Final Score row not found", <<>>>>)
                /\ pc' = "ais"
                /\ error' = error
    /\ UNCHANGED <<factors_file, ais_file, out_file, out_before, factors_df, time_vars,
                   factors_long_df, ais_df, unique_time_ranges, idx, final_json_data,
                   inserted, norm_in, norm_out>>

ReadAis_uncaught(file) ==
    CASE file.state = "absent" ->
           [raised |-> "FileNotFoundError", df |-> <<>>, warning |-> <<>>]
      [] file.state = "empty_file" ->
           [raised |-> "EmptyDataError", df |-> <<>>, warning |-> <<>>]
      [] file.state = "table" ->
           [raised |-> "none", df |-> PrepareAis(file.rows), warning |-> <<>>]

\* Lines 77-90: what the inner try block leaves.  Only FileNotFoundError is
\* caught there, and answered with an empty DataFrame; read_csv of a file with
\* no columns raises EmptyDataError, which is not caught.
ReadAis(file) ==
    CASE file.state = "absent" ->
           [raised |-> "none", df |-> <<>>,
            warning |-> <<<<"AIS.csv not found", <<>>>>>>]
      [] file.state = "empty_file" ->
           [raised |-> "EmptyDataError", df |-> <<>>, warning |-> <<>>]
      [] file.state = "table" ->
           [raised |-> "none", df |-> PrepareAis(file.rows), warning |-> <<>>]

\* Lines 77-90
LoadAis ==
    /\ pc = "ais"
    /\ LET read == ReadAis(ais_file)
       IN  IF read.raised # "none"
           THEN /\ Raise(read.raised)
                /\ UNCHANGED <<ais_df, warnings>>
           ELSE /\ ais_df' = read.df
                /\ warnings' = warnings \o read.warning
                /\ pc' = "ranges"
                /\ error' = error
    /\ UNCHANGED <<factors_file, ais_file, out_file, out_before, factors_df, time_vars,
                   factors_long_df, final_score_map, unique_time_ranges, idx,
                   final_json_data, inserted, norm_in, norm_out>>

\* Lines 94-97
BeginLoop ==
    /\ pc = "ranges"
    /\ unique_time_ranges' = UniqueTimeRanges(factors_long_df)
    /\ final_json_data' = <<>>
    /\ idx' = 1
    /\ pc' = "loop"
    /\ UNCHANGED <<factors_file, ais_file, out_file, out_before, factors_df, time_vars,
                   factors_long_df, final_score_map, ais_df, inserted, warnings, error,
                   norm_in, norm_out>>

\* Lines 102-147: one iteration of the for loop.
ProcessTimeRange ==
    /\ pc = "loop"
    /\ idx <= Len(unique_time_ranges)
    /\ LET time_range == unique_time_ranges[idx]
       IN  IF InvalidTimeRange(time_range)
           THEN /\ warnings' = Append(warnings, <<"Skipping invalid time range", time_range>>)
                /\ idx' = idx + 1
                /\ UNCHANGED <<pc, error, final_json_data, inserted>>
           ELSE LET hourly_record == NewRecord(time_range, final_score_map)
                    with_ais ==
                        IF ais_df # <<>>
                        THEN [hourly_record EXCEPT
                                 !.ais_data = AisInHour(ais_df, start_hour(time_range))]
                        ELSE hourly_record
                    factors_in_hour ==
                        SelectSeq(factors_long_df, LAMBDA r : r.time_range = time_range)
                    st == Aggregate([rec |-> with_ais, ok |-> TRUE,
                                     ins |-> inserted, warn |-> warnings],
                                    factors_in_hour)
                IN  /\ inserted' = st.ins
                    /\ warnings' = st.warn
                    /\ IF st.ok
                       THEN /\ final_json_data' = Append(final_json_data, st.rec)
                            /\ idx' = idx + 1
                            /\ UNCHANGED <<pc, error>>
                       ELSE /\ Raise("TypeError")
                            /\ UNCHANGED <<final_json_data, idx>>
    /\ UNCHANGED <<factors_file, ais_file, out_file, out_before, factors_df, time_vars,
                   factors_long_df, final_score_map, ais_df, unique_time_ranges,
                   norm_in, norm_out>>

\* Line 152: open(output_filename, 'w') creates or truncates the file.
OpenOutput ==
    /\ pc = "loop"
    /\ idx > Len(unique_time_ranges)
    /\ out_file' = [exists |-> TRUE, complete |-> FALSE, data |-> <<>>]
    /\ pc' = "dump"
    /\ UNCHANGED <<factors_file, ais_file, out_before, factors_df, time_vars,
                   factors_long_df, final_score_map, ais_df, unique_time_ranges, idx,
                   final_json_data, inserted, warnings, error, norm_in, norm_out>>

\* Line 153: json.dump writes as it encodes; a value it cannot encode raises
\* TypeError after the records before it have been written.
Dump ==
    /\ pc = "dump"
    /\ IF \A i \in 1..Len(final_json_data) : Serializable(final_json_data[i])
       THEN /\ out_file' = [exists |-> TRUE, complete |-> TRUE, data |-> final_json_data]
            /\ pc' = "done"
            /\ error' = error
       ELSE /\ out_file' = [exists |-> TRUE, complete |-> FALSE,
                            data |-> WrittenPrefix(final_json_data)]
            /\ Raise("TypeError")
    /\ UNCHANGED <<factors_file, ais_file, out_before, factors_df, time_vars,
                   factors_long_df, final_score_map, ais_df, unique_time_ranges, idx,
                   final_json_data, inserted, warnings, norm_in, norm_out>>

Next ==
    \/ LoadFactors
    \/ FinalScore
    \/ LoadAis
    \/ BeginLoop
    \/ ProcessTimeRange
    \/ OpenOutput
    \/ Dump

Spec == Init /\ [][Next]_vars

---------------------------------------------------------------------------
(* normalize_time_range on its own: two arguments, and the result applied   *)
(* to itself.                                                               *)

InitNorm ==
    /\ pc = "norm"
    /\ norm_in \in NormStrings \X NormStrings
    /\ norm_out = <<>>
    /\ factors_file = MissingTable
    /\ ais_file = AisAbsent
    /\ out_file = NoFile
    /\ out_before = NoFile
    /\ factors_df = EmptyDf
    /\ time_vars = <<>>
    /\ factors_long_df = <<>>
    /\ final_score_map = <<>>
    /\ ais_df = <<>>
    /\ unique_time_ranges = <<>>
    /\ idx = 1
    /\ final_json_data = <<>>
    /\ inserted = <<>>
    /\ warnings = <<>>
    /\ error = "none"

Normalize ==
    /\ pc = "norm"
    /\ norm_out' = <<normalize_time_range(norm_in[1]),
                     normalize_time_range(norm_in[2]),
                     normalize_time_range(normalize_time_range(norm_in[1]))>>
    /\ pc' = "normed"
    /\ UNCHANGED <<factors_file, ais_file, out_file, out_before, factors_df, time_vars,
                   factors_long_df, final_score_map, ais_df, unique_time_ranges, idx,
                   final_json_data, inserted, warnings, error, norm_in>>

NextNorm == Normalize

SpecNorm == InitNorm /\ [][NextNorm]_vars

---------------------------------------------------------------------------
(* Properties.                                                              *)

Labels(long_df) == {long_df[i].time_range : i \in 1..Len(long_df)}

ParsableLabels(long_df) == {l \in Labels(long_df) : IntParses(BeforeColon(l))}

RecordLabels(data) == {data[i].time_range : i \in 1..Len(data)}

LoopFinished ==
    \/ pc \in {"dump", "done"}
    \/ pc = "loop" /\ idx > Len(unique_time_ranges)

\* The loop was ended by an exception raised inside it.
LoopAborted ==
    pc = "failed" /\ error = "TypeError" /\ idx <= Len(unique_time_ranges)

\* C1: once the loop has run to its end, there are as many hourly records as
\* there are distinct time_range labels of the factor records whose text before
\* the first colon parses as an integer, and no record carries a label whose
\* hour does not parse.
C1_RecordCount ==
    LoopFinished =>
        /\ Len(final_json_data) = Cardinality(ParsableLabels(factors_long_df))
        /\ \A i \in 1..Len(final_json_data) :
              IntParses(BeforeColon(final_json_data[i].time_range))

\* C1 witness: a run that completed with a skipped label and an emitted one.
C1_Witness ==
    /\ pc = "done"
    /\ Labels(factors_long_df) # ParsableLabels(factors_long_df)
    /\ Len(final_json_data) >= 1

\* C2: a factor record whose canonical category is none of the four bucket keys
\* never ends the loop, puts nothing into any record, and is warned about once
\* its time range has been processed.
C2_UnknownCategoryDiscarded ==
    /\ ~LoopAborted
    /\ \A i \in 1..Len(final_json_data) : \A b \in BucketKeys :
          \A e \in 1..Len(final_json_data[i][b]) :
             \E k \in 1..Len(factors_long_df) :
                /\ factors_long_df[k].time_range = final_json_data[i].time_range
                /\ format_category_name(factors_long_df[k].category) = KeyText[b]
                /\ Strip(factors_long_df[k].factor.s) = final_json_data[i][b][e].k
                /\ factors_long_df[k].value = final_json_data[i][b][e].v
    /\ \A k \in 1..Len(factors_long_df) :
          LET category == format_category_name(factors_long_df[k].category)
          IN  (/\ category \notin {KeyText[b] : b \in BucketKeys}
               /\ factors_long_df[k].time_range \in RecordLabels(final_json_data))
              => \E w \in 1..Len(warnings) : warnings[w] = <<"Unknown category", category>>

\* C3: a run that ended in a failure left the output file as it found it.
C3_FailureLeavesOutput == pc = "failed" => out_file = out_before

\* C4 (its case): AIS.csv is absent, or none of its rows has a Timestamp that parses.
NoEvents ==
    \/ ais_file.state = "absent"
    \/ ais_file.state = "table" /\ \A i \in 1..Len(ais_file.rows) : ~ais_file.rows[i].Timestamp.ok

OwnScore(col) ==
    LET rows == FinalScoreRows(factors_df)
    IN  IF rows = <<>> THEN None
        ELSE IF notna(rows[1].vals[ColumnOf(factors_df, col)])
             THEN rows[1].vals[ColumnOf(factors_df, col)]
             ELSE None

\* C5: the final_score of every record is the value of the final-score row in
\* the record's own time column, and null when that is missing.
C5_FinalScoreOwnColumn ==
    \A i \in 1..Len(final_json_data) :
        final_json_data[i].final_score = OwnScore(final_json_data[i].time_range)

\* C6: in a run that completed, every (factor, value) the loop put into a
\* bucket is in that bucket of that record in the file written.
C6_InsertedSurvives ==
    pc = "done" =>
        \A k \in 1..Len(inserted) :
            \E i \in 1..Len(out_file.data) :
                /\ out_file.data[i].time_range = inserted[k].time_range
                /\ \E e \in 1..Len(out_file.data[i][inserted[k].bucket]) :
                      /\ out_file.data[i][inserted[k].bucket][e].k = inserted[k].factor
                      /\ out_file.data[i][inserted[k].bucket][e].v = inserted[k].value

\* A text with its whitespace removed and its dashes made hyphens.
RECURSIVE Skeleton(_)
Skeleton(s) ==
    IF s = <<>> THEN <<>>
    ELSE IF IsSpace(Head(s)) THEN Skeleton(Tail(s))
    ELSE IF Head(s) \in {EnDash, EmDash} THEN <<"-">> \o Skeleton(Tail(s))
    ELSE <<Head(s)>> \o Skeleton(Tail(s))

\* C7: two texts that differ only in dash glyphs or whitespace get the same
\* key, and normalizing a key returns it unchanged.
C7_NormalizeCollapses ==
    pc = "normed" =>
        /\ Skeleton(norm_in[1]) = Skeleton(norm_in[2]) => norm_out[1] = norm_out[2]
        /\ norm_out[3] = norm_out[1]

\* The category cell of the nearest row at or above row i that has one.
NearestCategory(rows, i) ==
    rows[CHOOSE j \in 1..i :
            /\ notna(rows[j].cat)
            /\ \A m \in (j + 1)..i : ~notna(rows[m].cat)].cat

\* C8: a factor record made from a row with an empty category cell carries the
\* category of the nearest row above that has one; a record made from a row
\* with a category carries that category.
C8_ForwardFill ==
    \A k \in 1..Len(factors_long_df) :
        LET i == factors_long_df[k].row
            rows == factors_file.rows
        IN  (\E j \in 1..i : notna(rows[j].cat))
                => factors_long_df[k].category = NearestCategory(rows, i)

\* C8 witness: a factor record of a row with an empty category cell, where the
\* nearest category above is not the first category of the table.
C8_Witness ==
    \E k \in 1..Len(factors_long_df) :
        LET i == factors_long_df[k].row
            rows == factors_file.rows
        IN  /\ ~notna(rows[i].cat)
            /\ \E j \in 1..i : notna(rows[j].cat)
            /\ \E j \in 1..i : notna(rows[j].cat) /\ rows[j].cat # NearestCategory(rows, i)

\* C9: the records emitted so far are in strictly ascending order of their
\* time_range, and once the loop has run to its end they are the records of
\* the labels whose hour parses.
C9_AscendingLabels ==
    /\ \A i, j \in 1..Len(final_json_data) :
          i < j => StrLess(final_json_data[i].time_range, final_json_data[j].time_range)
    /\ LoopFinished => RecordLabels(final_json_data) = ParsableLabels(factors_long_df)

\* C9 witness: two records emitted for time columns that stand in the table in
\* descending order.
C9_Witness ==
    /\ pc = "done"
    /\ Len(final_json_data) >= 2
    /\ Len(time_vars) >= 2
    /\ StrLess(time_vars[2], time_vars[1])

\* The events a record must hold: the rows of AIS.csv whose Timestamp parses
\* and names the hour, in file order, the Timestamp as a str.
ExpectedEvents(hour) ==
    LET rows == SelectSeq(ais_file.rows,
                          LAMBDA r : r.Timestamp.ok /\ r.Timestamp.hour = hour)
    IN  [i \in 1..Len(rows) |->
            [Timestamp |-> [kind |-> "str", ok |-> TRUE,
                            day |-> rows[i].Timestamp.day, hour |-> rows[i].Timestamp.hour],
             payload |-> rows[i].payload]]

\* C10: with a non-empty event log, the ais_data of every record is exactly
\* the events whose hour of day is the integer before the first colon of the
\* record's time_range, whatever their day, every other field unchanged.
C10_EventsOfTheHour ==
    ais_df # <<>> =>
        \A i \in 1..Len(final_json_data) :
            final_json_data[i].ais_data
                = ExpectedEvents(IntValue(BeforeColon(final_json_data[i].time_range)))

\* C10 witness: a record that holds some of the events and not all of them.
C10_Witness ==
    \E i \in 1..Len(final_json_data) :
        /\ Len(final_json_data[i].ais_data) >= 1
        /\ Len(final_json_data[i].ais_data) < Len(ais_df)

=============================================================================
